---------------------------- MODULE Spec2Model ----------------------------
(***************************************************************************)
(* A model of the Bengali-to-English transliterator                        *)
(* (src/src/bengali_english_translator.py) and of its command line         *)
(* (src/cli_translator.py).                                                *)
(*                                                                         *)
(* A character is its Unicode code point (an integer); a Python str is the *)
(* sequence of its code points.  Python indexes from 0 and TLA+ from 1:    *)
(* the scan index i of transliterate_word keeps Python's value, and the    *)
(* character clean_word[i] of the source is clean_word[i + 1] here.        *)
(***************************************************************************)
EXTENDS Integers, Sequences, FiniteSets, TLC

VARIABLES
    \* transliterate_word
    word,                  \* the argument
    clean_word,            \* word.strip()
    i,                     \* the scan index (0-based)
    result,                \* the string built so far
    pc,                    \* "idle" | "call" | "scan" | "ret" | "raised"
    reads,                 \* the 0-based positions of clean_word the scan has read
    \* transliterate_text
    text,                  \* the argument
    words,                 \* re.findall(r'\S+|\s+', text)
    k,                     \* how many tokens the for loop has consumed
    transliterated_words,  \* the list the for loop appends to
    joined,                \* the returned string
    tpc,                   \* "idle" | "call" | "loop" | "ret"
    \* the command line and the PDF pipeline
    entry,                 \* the script that is run: "cli" (cli_translator.py)
                           \* or "module" (bengali_english_translator.py)
    args_parse,            \* what parser.parse_args() does with the command
                           \* line: "ok" | "error" | "help"
    args_test,             \* --test was given
    args_output_given,     \* an output path was given
    mkdir_ok,              \* the output directory can be made
    input_exists,          \* os.path.exists(args.input_pdf) in main
    pdf,                   \* the input document as the extractors find it
    cpc,                   \* the position in main / translate_pdf /
                           \* smart_extract_text_from_pdf
    trace,                 \* the calls made and the exceptions raised, in order
    test_output,           \* what run_quick_test has transliterated, in order
    direct_text,           \* text of smart_extract_text_from_pdf
    bengali_text,          \* what smart_extract_text_from_pdf returned
    extracted_by,          \* "none" | "direct" | "ocr": the strategy that returned it
    transliterated_text,
    output_file,           \* "none" | "partial" | "complete"
    exit_code              \* the process exit status, -1 before the exit

wvars == <<word, clean_word, i, result, pc, reads>>
tvars == <<text, words, k, transliterated_words, joined, tpc>>
cvars == <<entry, args_parse, args_test, args_output_given, mkdir_ok,
           input_exists, pdf, cpc, trace, test_output, direct_text,
           bengali_text, extracted_by, transliterated_text, output_file,
           exit_code>>
vars == <<wvars, tvars, cvars>>

(***************************************************************************)
(* Bounds of the model.                                                    *)
(***************************************************************************)
MaxWordLen == 4
MaxTextLen == 4
MaxPages == 2

(***************************************************************************)
(* The two tables.                                                         *)
(***************************************************************************)
bengali_to_english_map ==
    (<<2437>> :> <<111>>)   \* line 50: U+0985 -> "o"
 @@ (<<2438>> :> <<97>>)   \* line 51: U+0986 -> "a"
 @@ (<<2439>> :> <<105>>)   \* line 52: U+0987 -> "i"
 @@ (<<2440>> :> <<101, 101>>)   \* line 53: U+0988 -> "ee"
 @@ (<<2441>> :> <<117>>)   \* line 54: U+0989 -> "u"
 @@ (<<2442>> :> <<111, 111>>)   \* line 55: U+098A -> "oo"
 @@ (<<2443>> :> <<114, 105>>)   \* line 56: U+098B -> "ri"
 @@ (<<2447>> :> <<101>>)   \* line 57: U+098F -> "e"
 @@ (<<2448>> :> <<111, 105>>)   \* line 58: U+0990 -> "oi"
 @@ (<<2451>> :> <<111>>)   \* line 59: U+0993 -> "o"
 @@ (<<2452>> :> <<111, 117>>)   \* line 60: U+0994 -> "ou"
 @@ (<<2494>> :> <<97>>)   \* line 63: U+09BE -> "a"
 @@ (<<2495>> :> <<105>>)   \* line 64: U+09BF -> "i"
 @@ (<<2496>> :> <<101, 101>>)   \* line 65: U+09C0 -> "ee"
 @@ (<<2497>> :> <<117>>)   \* line 66: U+09C1 -> "u"
 @@ (<<2498>> :> <<111, 111>>)   \* line 67: U+09C2 -> "oo"
 @@ (<<2499>> :> <<114, 105>>)   \* line 68: U+09C3 -> "ri"
 @@ (<<2503>> :> <<101>>)   \* line 69: U+09C7 -> "e"
 @@ (<<2504>> :> <<111, 105>>)   \* line 70: U+09C8 -> "oi"
 @@ (<<2507>> :> <<111>>)   \* line 71: U+09CB -> "o"
 @@ (<<2508>> :> <<111, 117>>)   \* line 72: U+09CC -> "ou"
 @@ (<<2453>> :> <<107>>)   \* line 75: U+0995 -> "k"
 @@ (<<2454>> :> <<107, 104>>)   \* line 76: U+0996 -> "kh"
 @@ (<<2455>> :> <<103>>)   \* line 77: U+0997 -> "g"
 @@ (<<2456>> :> <<103, 104>>)   \* line 78: U+0998 -> "gh"
 @@ (<<2457>> :> <<110, 103>>)   \* line 79: U+0999 -> "ng"
 @@ (<<2458>> :> <<99, 104>>)   \* line 80: U+099A -> "ch"
 @@ (<<2459>> :> <<99, 104, 104>>)   \* line 81: U+099B -> "chh"
 @@ (<<2460>> :> <<106>>)   \* line 82: U+099C -> "j"
 @@ (<<2461>> :> <<106, 104>>)   \* line 83: U+099D -> "jh"
 @@ (<<2462>> :> <<110, 121>>)   \* line 84: U+099E -> "ny"
 @@ (<<2463>> :> <<116>>)   \* line 85: U+099F -> "t"
 @@ (<<2464>> :> <<116, 104>>)   \* line 86: U+09A0 -> "th"
 @@ (<<2465>> :> <<100>>)   \* line 87: U+09A1 -> "d"
 @@ (<<2466>> :> <<100, 104>>)   \* line 88: U+09A2 -> "dh"
 @@ (<<2467>> :> <<110>>)   \* line 89: U+09A3 -> "n"
 @@ (<<2468>> :> <<116>>)   \* line 90: U+09A4 -> "t"
 @@ (<<2469>> :> <<116, 104>>)   \* line 91: U+09A5 -> "th"
 @@ (<<2470>> :> <<100>>)   \* line 92: U+09A6 -> "d"
 @@ (<<2471>> :> <<100, 104>>)   \* line 93: U+09A7 -> "dh"
 @@ (<<2472>> :> <<110>>)   \* line 94: U+09A8 -> "n"
 @@ (<<2474>> :> <<112>>)   \* line 95: U+09AA -> "p"
 @@ (<<2475>> :> <<112, 104>>)   \* line 96: U+09AB -> "ph"
 @@ (<<2476>> :> <<98>>)   \* line 97: U+09AC -> "b"
 @@ (<<2477>> :> <<98, 104>>)   \* line 98: U+09AD -> "bh"
 @@ (<<2478>> :> <<109>>)   \* line 99: U+09AE -> "m"
 @@ (<<2479>> :> <<121>>)   \* line 100: U+09AF -> "y"
 @@ (<<2480>> :> <<114>>)   \* line 101: U+09B0 -> "r"
 @@ (<<2482>> :> <<108>>)   \* line 102: U+09B2 -> "l"
 @@ (<<2486>> :> <<115, 104>>)   \* line 103: U+09B6 -> "sh"
 @@ (<<2487>> :> <<115, 104>>)   \* line 104: U+09B7 -> "sh"
 @@ (<<2488>> :> <<115>>)   \* line 105: U+09B8 -> "s"
 @@ (<<2489>> :> <<104>>)   \* line 106: U+09B9 -> "h"
 @@ (<<2465, 2492>> :> <<114>>)   \* line 107: U+09A1 U+09BC -> "r"
 @@ (<<2466, 2492>> :> <<114, 104>>)   \* line 108: U+09A2 U+09BC -> "rh"
 @@ (<<2479, 2492>> :> <<121>>)   \* line 109: U+09AF U+09BC -> "y"
 @@ (<<2510>> :> <<116>>)   \* line 110: U+09CE -> "t"
 @@ (<<2434>> :> <<110, 103>>)   \* line 111: U+0982 -> "ng"
 @@ (<<2435>> :> <<104>>)   \* line 112: U+0983 -> "h"
 @@ (<<2509>> :> <<>>)   \* line 113: U+09CD -> ""
 @@ (<<2534>> :> <<48>>)   \* line 116: U+09E6 -> "0"
 @@ (<<2535>> :> <<49>>)   \* line 117: U+09E7 -> "1"
 @@ (<<2536>> :> <<50>>)   \* line 118: U+09E8 -> "2"
 @@ (<<2537>> :> <<51>>)   \* line 119: U+09E9 -> "3"
 @@ (<<2538>> :> <<52>>)   \* line 120: U+09EA -> "4"
 @@ (<<2539>> :> <<53>>)   \* line 121: U+09EB -> "5"
 @@ (<<2540>> :> <<54>>)   \* line 122: U+09EC -> "6"
 @@ (<<2541>> :> <<55>>)   \* line 123: U+09ED -> "7"
 @@ (<<2542>> :> <<56>>)   \* line 124: U+09EE -> "8"
 @@ (<<2543>> :> <<57>>)   \* line 125: U+09EF -> "9"
 @@ (<<2404>> :> <<46>>)   \* line 128: U+0964 -> "."
 @@ (<<2405>> :> <<46, 46>>)   \* line 129: U+0965 -> ".."
word_exceptions ==
    (<<2474, 2469, 2503, 2480>> :> <<112, 111, 116, 104, 101, 114>>)   \* line 138: U+09AA U+09A5 U+09C7 U+09B0 -> "pother"
 @@ (<<2474, 2494, 2433, 2458, 2494, 2482, 2496>> :> <<112, 97, 99, 104, 97, 108, 105>>)   \* line 139: U+09AA U+09BE U+0981 U+099A U+09BE U+09B2 U+09C0 -> "pachali"
 @@ (<<2472, 2495, 2486, 2509, 2458, 2495, 2472, 2509, 2470, 2495, 2474, 2497, 2480>> :> <<110, 105, 115, 104, 99, 104, 105, 110, 100, 105, 112, 117, 114>>)   \* line 140: U+09A8 U+09BF U+09B6 U+09CD U+099A U+09BF U+09A8 U+09CD U+09A6 U+09BF U+09AA U+09C1 U+09B0 -> "nishchindipur"
 @@ (<<2455, 2509, 2480, 2494, 2478, 2503, 2480>> :> <<103, 114, 97, 109, 101, 114>>)   \* line 141: U+0997 U+09CD U+09B0 U+09BE U+09AE U+09C7 U+09B0 -> "gramer"
 @@ (<<2447, 2453, 2503, 2476, 2494, 2480, 2503>> :> <<101, 107, 101, 98, 97, 114, 101>>)   \* line 142: U+098F U+0995 U+09C7 U+09AC U+09BE U+09B0 U+09C7 -> "ekebare"
 @@ (<<2441, 2468, 2509, 2468, 2480, 2474, 2509, 2480, 2494, 2472, 2509, 2468, 2503>> :> <<117, 116, 116, 97, 114, 112, 114, 97, 110, 116, 101>>)   \* line 143: U+0989 U+09A4 U+09CD U+09A4 U+09B0 U+09AA U+09CD U+09B0 U+09BE U+09A8 U+09CD U+09A4 U+09C7 -> "uttarprante"
 @@ (<<2476, 2494, 2434, 2482, 2494>> :> <<98, 97, 110, 103, 108, 97>>)   \* line 144: U+09AC U+09BE U+0982 U+09B2 U+09BE -> "bangla"
 @@ (<<2477, 2494, 2487, 2494>> :> <<98, 104, 97, 115, 104, 97>>)   \* line 145: U+09AD U+09BE U+09B7 U+09BE -> "bhasha"
 @@ (<<2488, 2494, 2489, 2495, 2468, 2509, 2479>> :> <<115, 97, 104, 105, 116, 121, 97>>)   \* line 146: U+09B8 U+09BE U+09B9 U+09BF U+09A4 U+09CD U+09AF -> "sahitya"
 @@ (<<2453, 2476, 2495, 2468, 2494>> :> <<107, 111, 98, 105, 116, 97>>)   \* line 147: U+0995 U+09AC U+09BF U+09A4 U+09BE -> "kobita"
 @@ (<<2455, 2482, 2509, 2474>> :> <<103, 111, 108, 112, 111>>)   \* line 148: U+0997 U+09B2 U+09CD U+09AA -> "golpo"
 @@ (<<2441, 2474, 2472, 2509, 2479, 2494, 2488>> :> <<117, 112, 111, 110, 110, 121, 97, 115>>)   \* line 149: U+0989 U+09AA U+09A8 U+09CD U+09AF U+09BE U+09B8 -> "uponnyas"
 @@ (<<2482, 2503, 2454, 2453>> :> <<108, 101, 107, 104, 111, 107>>)   \* line 150: U+09B2 U+09C7 U+0996 U+0995 -> "lekhok"
 @@ (<<2453, 2476, 2495>> :> <<107, 111, 98, 105>>)   \* line 151: U+0995 U+09AC U+09BF -> "kobi"

\* '্', the hasanta the conjunct test compares with
Virama == 2509

(***************************************************************************)
(* Python's str predicates and str.strip().                                *)
(***************************************************************************)
\* The code points c with chr(c).isspace(): the characters str.strip()
\* removes, str.isspace() accepts and the pattern \s matches.
WhitespaceCodePoints ==
    (9..13) \cup (28..32) \cup {133, 160, 5760} \cup (8192..8202)
        \cup {8232, 8233, 8239, 8287, 12288}

IsSpace(c) == c \in WhitespaceCodePoints

RECURSIVE lstrip(_)
lstrip(s) ==
    IF s # <<>> /\ IsSpace(Head(s)) THEN lstrip(Tail(s)) ELSE s

RECURSIVE rstrip(_)
rstrip(s) ==
    IF s # <<>> /\ IsSpace(s[Len(s)]) THEN rstrip(SubSeq(s, 1, Len(s) - 1)) ELSE s

strip(s) == rstrip(lstrip(s))

\* str.isspace(): at least one character, and all of them whitespace
isspace(s) == s # <<>> /\ \A j \in 1..Len(s) : IsSpace(s[j])

(***************************************************************************)
(* transliterate_character and the scan of transliterate_word.             *)
(***************************************************************************)
\* (mutant) .get(char, ''): an unmapped character is dropped
transliterate_character_no_default(char) ==
    IF <<char>> \in DOMAIN bengali_to_english_map
    THEN bengali_to_english_map[<<char>>]
    ELSE <<>>

\* self.bengali_to_english_map.get(char, char): char is a one-character str
transliterate_character(char) ==
    IF <<char>> \in DOMAIN bengali_to_english_map
    THEN bengali_to_english_map[<<char>>]
    ELSE <<char>>

\* the while condition
InLoop(cw, idx) == idx < Len(cw)

\* (mutant) i < len(clean_word) - 1
ConjunctGuardOffByOne(cw, idx) == idx < Len(cw) - 1

\* i < len(clean_word) - 2, the left operand of the conjunct test
ConjunctGuard(cw, idx) == idx < Len(cw) - 2

\* i < len(clean_word) - 2 and clean_word[i + 1] == virama.  'and' reads
\* clean_word[i + 1] only when its left operand holds; the middle conjunct
\* says that this read is inside the string.
IsConjunctAt(cw, idx) ==
    ConjunctGuard(cw, idx) /\ idx + 1 < Len(cw) /\ cw[idx + 2] = Virama

\* (mutant) the conjunct branch advances by 2: i += 2
ScanStepAdvanceTwo(cw, idx, res) ==
    IF IsConjunctAt(cw, idx) /\ idx + 2 < Len(cw)
    THEN [i |-> idx + 2,
          result |-> res \o transliterate_character(cw[idx + 1])
                         \o transliterate_character(cw[idx + 3]),
          reads |-> {idx, idx + 1, idx + 2},
          raised |-> FALSE]
    ELSE [i |-> idx + 1,
          result |-> res \o transliterate_character(cw[idx + 1]),
          reads |-> IF ConjunctGuard(cw, idx) THEN {idx, idx + 1} ELSE {idx},
          raised |-> FALSE]

\* (mutant) the conjunct branch appends the first consonant only
ScanStepDropsSecond(cw, idx, res) ==
    IF IsConjunctAt(cw, idx) /\ idx + 2 < Len(cw)
    THEN [i |-> idx + 3,
          result |-> res \o transliterate_character(cw[idx + 1]),
          reads |-> {idx, idx + 1, idx + 2},
          raised |-> FALSE]
    ELSE [i |-> idx + 1,
          result |-> res \o transliterate_character(cw[idx + 1]),
          reads |-> IF ConjunctGuard(cw, idx) THEN {idx, idx + 1} ELSE {idx},
          raised |-> FALSE]

\* One iteration of the while loop at index idx with `res` built so far, in
\* the order the code evaluates it: char = clean_word[i], the guard, the
\* read of clean_word[i + 1], and in the conjunct branch the read of
\* clean_word[i + 2].  A read at a position >= len(clean_word) raises
\* IndexError.  The step gives the new index, the new result, the positions
\* read and whether IndexError was raised.
ScanStep(cw, idx, res) ==
    LET simple(rd) == [i |-> idx + 1,
                       result |-> res \o transliterate_character(cw[idx + 1]),
                       reads |-> rd, raised |-> FALSE]
        error(rd)  == [i |-> idx, result |-> res, reads |-> rd, raised |-> TRUE]
    IN  IF ~ConjunctGuard(cw, idx) THEN simple({idx})
        ELSE IF idx + 1 >= Len(cw) THEN error({idx, idx + 1})
        ELSE IF cw[idx + 2] # Virama THEN simple({idx, idx + 1})
        ELSE IF idx + 2 >= Len(cw) THEN error({idx, idx + 1, idx + 2})
        ELSE [i |-> idx + 3,
              result |-> res \o transliterate_character(cw[idx + 1])
                             \o transliterate_character(cw[idx + 3]),
              reads |-> {idx, idx + 1, idx + 2},
              raised |-> FALSE]

\* The while loop from index idx to its exit.
RECURSIVE ScanFrom(_, _, _)
ScanFrom(cw, idx, res) ==
    IF ~InLoop(cw, idx) THEN res
    ELSE LET s == ScanStep(cw, idx, res)
         IN  IF s.raised THEN res ELSE ScanFrom(cw, s.i, s.result)

\* transliterate_word as a function of its argument
transliterate_word(w) ==
    LET cw == strip(w)
    IN  IF cw \in DOMAIN word_exceptions
        THEN word_exceptions[cw]
        ELSE ScanFrom(cw, 0, <<>>)

(***************************************************************************)
(* transliterate_text: the tokens and the join.                            *)
(***************************************************************************)
\* The last position of the maximal run that starts at p and whose
\* characters are all whitespace (ws) or all non-whitespace (~ws): what the
\* greedy \s+ or \S+ matches from p.
RECURSIVE RunEnd(_, _, _)
RunEnd(s, p, ws) ==
    IF p < Len(s) /\ IsSpace(s[p + 1]) = ws THEN RunEnd(s, p + 1, ws) ELSE p

\* re.findall(r'\S+|\s+', s) from position p (1-based) on: at p one of the two
\* alternatives matches, and the scan resumes after the match.
RECURSIVE FindAllFrom(_, _)
FindAllFrom(s, p) ==
    IF p > Len(s) THEN <<>>
    ELSE LET e == RunEnd(s, p, IsSpace(s[p]))
         IN  <<SubSeq(s, p, e)>> \o FindAllFrom(s, e + 1)

\* (mutant) re.findall(r'\S+|\s', s): one token per whitespace character
RECURSIVE FindAllSingleSpaceFrom(_, _)
FindAllSingleSpaceFrom(s, p) ==
    IF p > Len(s) THEN <<>>
    ELSE LET e == IF IsSpace(s[p]) THEN p ELSE RunEnd(s, p, FALSE)
         IN  <<SubSeq(s, p, e)>> \o FindAllSingleSpaceFrom(s, e + 1)

findall_single_space(s) == FindAllSingleSpaceFrom(s, 1)

findall(s) == FindAllFrom(s, 1)

\* ''.join(parts)
RECURSIVE join(_)
join(parts) ==
    IF parts = <<>> THEN <<>> ELSE Head(parts) \o join(Tail(parts))

\* what the for loop appends for one token
TransliterateToken(tok) ==
    IF isspace(tok) THEN tok ELSE transliterate_word(tok)

\* transliterate_text as a function of its argument
transliterate_text(t) ==
    LET ws == findall(t)
    IN  join([n \in 1..Len(ws) |-> TransliterateToken(ws[n])])

(***************************************************************************)
(* The inputs.                                                             *)
(***************************************************************************)
BoundedSeqs(S, n) == UNION {[1..m -> S] : m \in 0..n}

\* ka (k), kha (kh), the virama, Latin a, the space
WordAlphabet == {2453, 2454, 2509, 97, 32}

\* whitespace put around a word of the exception table
Pads == {<<>>, <<32>>, <<9, 32>>}

\* every word of the exception table, bare and padded, and with a danda or a
\* virama attached (no longer a key of the table)
ExceptionInputs ==
    {l \o w \o r : l \in Pads, w \in DOMAIN word_exceptions, r \in Pads}
        \cup {w \o <<c>> : w \in DOMAIN word_exceptions, c \in {2404, 2509}}

\* the characters of the single-character words: ASCII, the Devanagari and
\* Bengali blocks (U+0900..U+09FF) and the whitespace characters
CharDomain == (0..127) \cup (2304..2559) \cup WhitespaceCodePoints

SingleCharInputs == {<<c>> : c \in CharDomain}

\* every key of the character map as a word
MapKeyInputs == DOMAIN bengali_to_english_map

\* conjunct chains X-virama-Y-virama-Z (with and without a character after
\* them, and with a trailing virama) and runs of viramas, over ka, kha and
\* Latin a
ChainInputs ==
    {<<x, 2509, y, 2509, z>> \o t :
         x \in {2453, 2454}, y \in {2453, 2454, 2509}, z \in {2453, 97},
         t \in {<<>>, <<2509>>, <<2453>>, <<2509, 2454>>}}

WordInputs ==
    BoundedSeqs(WordAlphabet, MaxWordLen) \cup ExceptionInputs
        \cup SingleCharInputs \cup MapKeyInputs \cup ChainInputs

\* ka, the virama, the danda, Latin a, the space, the tab
TextAlphabet == {2453, 2509, 2404, 97, 32, 9}

\* run_quick_test: the list test_cases, in its order
test_cases ==
    << \* "পথের পাঁচালী"
       <<2474, 2469, 2503, 2480, 32, 2474, 2494, 2433, 2458, 2494, 2482, 2496>>,
       \* "নিশ্চিন্দিপুর গ্রামের একেবারে উত্তরপ্রান্তে"
       <<2472, 2495, 2486, 2509, 2458, 2495, 2472, 2509, 2470, 2495, 2474,
         2497, 2480, 32, 2455, 2509, 2480, 2494, 2478, 2503, 2480, 32, 2447,
         2453, 2503, 2476, 2494, 2480, 2503, 32, 2441, 2468, 2509, 2468, 2480,
         2474, 2509, 2480, 2494, 2472, 2509, 2468, 2503>>,
       \* "বাংলা ভাষা অত্যন্ত সুন্দর"
       <<2476, 2494, 2434, 2482, 2494, 32, 2477, 2494, 2487, 2494, 32, 2437,
         2468, 2509, 2479, 2472, 2509, 2468, 32, 2488, 2497, 2472, 2509, 2470,
         2480>>,
       \* "রবীন্দ্রনাথ ঠাকুর বিশ্বকবি"
       <<2480, 2476, 2496, 2472, 2509, 2470, 2509, 2480, 2472, 2494, 2469, 32,
         2464, 2494, 2453, 2497, 2480, 32, 2476, 2495, 2486, 2509, 2476, 2453,
         2476, 2495>> >>

\* the texts of test_cases, as inputs of transliterate_text
SampleTexts == {test_cases[n] : n \in 1..Len(test_cases)}

\* two further inputs, not texts of the repository: "Hello, World 42", which
\* has no key of the table, and ka, space, double danda, space, 1
PlainTexts ==
    { <<72, 101, 108, 108, 111, 44, 32, 87, 111, 114, 108, 100, 32, 52, 50>>,
      <<2453, 32, 2405, 32, 49>> }

TextInputs ==
    BoundedSeqs(TextAlphabet, MaxTextLen) \cup SampleTexts \cup PlainTexts

(***************************************************************************)
(* transliterate_word, step by step.                                       *)
(***************************************************************************)
WordIdle ==
    /\ word = <<>> /\ clean_word = <<>> /\ i = 0 /\ result = <<>>
    /\ pc = "idle" /\ reads = {}

TextIdle ==
    /\ text = <<>> /\ words = <<>> /\ k = 0 /\ transliterated_words = <<>>
    /\ joined = <<>> /\ tpc = "idle"

CliIdle ==
    /\ entry = "cli" /\ args_parse = "ok" /\ test_output = <<>>
    /\ args_test = FALSE /\ args_output_given = FALSE /\ mkdir_ok = FALSE
    /\ input_exists = FALSE
    /\ pdf = [file |-> "missing", pages |-> <<>>, scan |-> <<>>]
    /\ cpc = "idle" /\ trace = <<>> /\ direct_text = <<>>
    /\ bengali_text = <<>> /\ extracted_by = "none"
    /\ transliterated_text = <<>> /\ output_file = "none" /\ exit_code = -1

\* (mutant) the exception lookup is done on word, not on clean_word
WordEnterUnstripped ==
    /\ pc = "call"
    /\ clean_word' = strip(word)
    /\ i' = 0
    /\ IF word \in DOMAIN word_exceptions
       THEN result' = word_exceptions[word] /\ pc' = "ret"
       ELSE result' = <<>> /\ pc' = "scan"
    /\ UNCHANGED <<word, reads, tvars, cvars>>

\* clean_word = word.strip(); the exception lookup; result = ''; i = 0
WordEnter ==
    /\ pc = "call"
    /\ clean_word' = strip(word)
    /\ i' = 0
    /\ IF strip(word) \in DOMAIN word_exceptions
       THEN result' = word_exceptions[strip(word)] /\ pc' = "ret"
       ELSE result' = <<>> /\ pc' = "scan"
    /\ UNCHANGED <<word, reads, tvars, cvars>>

ApplyStep(s) ==
    /\ i' = s.i
    /\ result' = s.result
    /\ reads' = reads \cup s.reads
    /\ pc' = IF s.raised THEN "raised" ELSE "scan"
    /\ UNCHANGED <<word, clean_word, tvars, cvars>>

\* an iteration that takes the conjunct branch
ScanConjunct ==
    /\ pc = "scan"
    /\ InLoop(clean_word, i)
    /\ IsConjunctAt(clean_word, i)
    /\ ApplyStep(ScanStep(clean_word, i, result))

\* an iteration that takes the else branch
ScanSimple ==
    /\ pc = "scan"
    /\ InLoop(clean_word, i)
    /\ ~IsConjunctAt(clean_word, i)
    /\ ApplyStep(ScanStep(clean_word, i, result))

\* the while condition fails: return result
ScanExit ==
    /\ pc = "scan"
    /\ ~InLoop(clean_word, i)
    /\ pc' = "ret"
    /\ UNCHANGED <<word, clean_word, i, result, reads, tvars, cvars>>

InitWord ==
    /\ word \in WordInputs
    /\ clean_word = <<>> /\ i = 0 /\ result = <<>> /\ pc = "call" /\ reads = {}
    /\ TextIdle
    /\ CliIdle

NextWord == WordEnter \/ ScanConjunct \/ ScanSimple \/ ScanExit

SpecWord == InitWord /\ [][NextWord]_vars

\* the interpreter keeps executing the call until it returns or raises
SpecWordFair == SpecWord /\ WF_vars(NextWord)

(***************************************************************************)
(* transliterate_text, token by token.                                     *)
(***************************************************************************)
\* words = re.findall(...); transliterated_words = []
TextEnter ==
    /\ tpc = "call"
    /\ words' = findall(text)
    /\ transliterated_words' = <<>>
    /\ k' = 0
    /\ tpc' = "loop"
    /\ UNCHANGED <<text, joined, wvars, cvars>>

\* (mutant) a whitespace token is appended as one space
TextAppendSpaceCollapsed ==
    /\ tpc = "loop"
    /\ k < Len(words)
    /\ isspace(words[k + 1])
    /\ transliterated_words' = Append(transliterated_words, <<32>>)
    /\ k' = k + 1
    /\ UNCHANGED <<text, words, joined, tpc, wvars, cvars>>

\* word.isspace(): the token is appended as it is
TextAppendSpace ==
    /\ tpc = "loop"
    /\ k < Len(words)
    /\ isspace(words[k + 1])
    /\ transliterated_words' = Append(transliterated_words, words[k + 1])
    /\ k' = k + 1
    /\ UNCHANGED <<text, words, joined, tpc, wvars, cvars>>

\* otherwise transliterate_word(word) is appended
TextAppendWord ==
    /\ tpc = "loop"
    /\ k < Len(words)
    /\ ~isspace(words[k + 1])
    /\ transliterated_words' =
           Append(transliterated_words, transliterate_word(words[k + 1]))
    /\ k' = k + 1
    /\ UNCHANGED <<text, words, joined, tpc, wvars, cvars>>

\* return ''.join(transliterated_words)
TextJoin ==
    /\ tpc = "loop"
    /\ k = Len(words)
    /\ joined' = join(transliterated_words)
    /\ tpc' = "ret"
    /\ UNCHANGED <<text, words, k, transliterated_words, wvars, cvars>>

InitText ==
    /\ text \in TextInputs
    /\ words = <<>> /\ k = 0 /\ transliterated_words = <<>>
    /\ joined = <<>> /\ tpc = "call"
    /\ WordIdle
    /\ CliIdle

NextText == TextEnter \/ TextAppendSpace \/ TextAppendWord \/ TextJoin

SpecText == InitText /\ [][NextText]_vars

(***************************************************************************)
(* The PDF pipeline and the command line.                                  *)
(***************************************************************************)
\* [n |-> c, ..., c]: the character c repeated n times
Repeat(c, n) == [j \in 1..n |-> c]

\* The code points c of CharDomain with chr(c).isalnum().
AlnumCodePoints ==
    (48..57) \cup (65..90) \cup (97..122) \cup (2308..2361) \cup {2365, 2384}
        \cup (2392..2401) \cup (2406..2415) \cup (2417..2432)
        \cup (2437..2444) \cup (2447..2448) \cup (2451..2472)
        \cup (2474..2480) \cup {2482} \cup (2486..2489) \cup {2493, 2510}
        \cup (2524..2525) \cup (2527..2529) \cup (2534..2545)
        \cup (2548..2553) \cup {2556}

\* extract_text_from_pdf on a readable file whose pages have the text
\* layers `pages`: text += page.extract_text() + "\n"
extract_text_from_pdf(pages) ==
    join([n \in 1..Len(pages) |-> pages[n] \o <<10>>])

\* extract_text_from_pdf_with_ocr on a file whose page images read as
\* `images`: extracted_text += page_text + "\n\n"
extract_text_from_pdf_with_ocr(images) ==
    join([n \in 1..Len(images) |-> images[n] \o <<10, 10>>])

\* (mutant) len(clean_text) >= 50
IsMeaningfulAtLeast(t) ==
    /\ Len(strip(t)) >= 50
    /\ {n \in 1..Len(strip(t)) : strip(t)[n] \in AlnumCodePoints} # {}

\* len(clean_text) > 50 and any(c.isalnum() for c in clean_text)
IsMeaningful(t) ==
    /\ Len(strip(t)) > 50
    /\ {n \in 1..Len(strip(t)) : strip(t)[n] \in AlnumCodePoints} # {}

\* The text layers a page can have: 25 and 24 Latin letters, 30 hyphens
\* (no alphanumeric character), two spaces, the 10 characters
\* "k<virama>kh golpo" in Bengali, and 26 Bengali letters after a space.
PageTexts ==
    { Repeat(97, 25), Repeat(97, 24), Repeat(45, 30), <<32, 32>>,
      <<2453, 2509, 2454, 32, 2455, 2482, 2509, 2474, 2404, 2404>>,
      <<32>> \o Repeat(2453, 26) }

\* What OCR reads on every page image of a document.
ScanTexts == { <<2455, 2482, 2509, 2474, 32, 2453, 2509, 2454, 2404>>, <<>> }

\* The input documents: a file that is missing, one that cannot be read,
\* and the readable ones with up to MaxPages pages.
Documents ==
    {[file |-> f, pages |-> <<>>, scan |-> <<>>] : f \in {"missing", "corrupt"}}
        \cup {[file |-> "ok", pages |-> p, scan |-> s] :
                 p \in BoundedSeqs(PageTexts, MaxPages), s \in ScanTexts}

env == <<entry, args_parse, args_test, args_output_given, mkdir_ok,
         input_exists, pdf>>

\* sys.exit(main()) after main has returned `code` (None counts as 0) or
\* has let an exception escape (the interpreter exits with 1); a SystemExit
\* raised by parse_args inside main carries its own status
Exit(code) ==
    /\ cpc' = "exit"
    /\ exit_code' = code

\* bengali_english_translator.py run as a script: main() is the last
\* statement, so the status is 0 whatever main returns, and 1 when an
\* exception escapes main
ModuleExit(code) ==
    /\ cpc' = "exit"
    /\ exit_code' = code

\* args = parser.parse_args() on a command line the parser rejects (an
\* unknown option, a third positional argument): the usage message and
\* SystemExit(2)
MainParseError ==
    /\ entry = "cli"
    /\ cpc = "main"
    /\ args_parse = "error"
    /\ Exit(2)
    /\ UNCHANGED <<env, trace, direct_text, bengali_text, extracted_by,
                   transliterated_text, output_file, test_output,
                   wvars, tvars>>

\* args = parser.parse_args() with -h or --help: the help text and
\* SystemExit(0)
MainHelp ==
    /\ entry = "cli"
    /\ cpc = "main"
    /\ args_parse = "help"
    /\ Exit(0)
    /\ UNCHANGED <<env, trace, direct_text, bengali_text, extracted_by,
                   transliterated_text, output_file, test_output,
                   wvars, tvars>>

\* run_quick_test: transliterate_text of every text of test_cases, in order
run_quick_test ==
    [n \in 1..Len(test_cases) |-> transliterate_text(test_cases[n])]

\* if args.test: run_quick_test(); return
MainRunTest ==
    /\ entry = "cli"
    /\ cpc = "main"
    /\ args_parse = "ok"
    /\ args_test
    /\ trace' = Append(trace, "run_quick_test")
    /\ test_output' = run_quick_test
    /\ Exit(0)
    /\ UNCHANGED <<env, direct_text, bengali_text, extracted_by,
                   transliterated_text, output_file, wvars, tvars>>

\* args.output_pdf is None and output_dir.mkdir(exist_ok=True) raises: the
\* exception escapes main
MainMkdirFails ==
    /\ entry = "cli"
    /\ cpc = "main"
    /\ args_parse = "ok"
    /\ ~args_test
    /\ ~args_output_given /\ ~mkdir_ok
    /\ trace' = Append(trace, "mkdir_raised")
    /\ Exit(1)
    /\ UNCHANGED <<env, direct_text, bengali_text, extracted_by,
                   transliterated_text, output_file, test_output,
                   wvars, tvars>>

\* (mutant) the missing input is reported but main does not return
MainInputMissingFallsThrough ==
    /\ entry = "cli"
    /\ cpc = "main"
    /\ args_parse = "ok"
    /\ ~args_test
    /\ ~args_output_given => mkdir_ok
    /\ ~input_exists
    /\ trace' = trace \o <<"translate_pdf", "smart_extract_text_from_pdf">>
    /\ cpc' = "extract"
    /\ UNCHANGED <<env, direct_text, bengali_text, extracted_by,
                   transliterated_text, output_file, exit_code,
                   test_output, wvars, tvars>>

\* if not os.path.exists(args.input_pdf): ... return 1
MainInputMissing ==
    /\ entry = "cli"
    /\ cpc = "main"
    /\ args_parse = "ok"
    /\ ~args_test
    /\ ~args_output_given => mkdir_ok
    /\ ~input_exists
    /\ Exit(1)
    /\ UNCHANGED <<env, trace, direct_text, bengali_text, extracted_by,
                   transliterated_text, output_file, test_output,
                   wvars, tvars>>

\* translator.translate_pdf(args.input_pdf, str(args.output_pdf)), which
\* calls smart_extract_text_from_pdf
MainCallTranslate ==
    /\ entry = "cli"
    /\ cpc = "main"
    /\ args_parse = "ok"
    /\ ~args_test
    /\ ~args_output_given => mkdir_ok
    /\ input_exists
    /\ trace' = trace \o <<"translate_pdf", "smart_extract_text_from_pdf">>
    /\ cpc' = "extract"
    /\ UNCHANGED <<env, direct_text, bengali_text, extracted_by,
                   transliterated_text, output_file, exit_code,
                   test_output, wvars, tvars>>

\* text = self.extract_text_from_pdf(pdf_path): FileNotFoundError for a
\* missing file, Exception for one that cannot be read; both are caught by
\* the except clause of smart_extract_text_from_pdf
ExtractDirect ==
    /\ cpc = "extract"
    /\ IF pdf.file = "ok"
       THEN /\ direct_text' = extract_text_from_pdf(pdf.pages)
            /\ trace' = Append(trace, "direct")
            /\ cpc' = "decide"
       ELSE /\ direct_text' = direct_text
            /\ trace' = trace \o <<"direct", "direct_raised">>
            /\ cpc' = "except"
    /\ UNCHANGED <<env, bengali_text, extracted_by, transliterated_text,
                   output_file, exit_code,
                   test_output, wvars, tvars>>

\* the text is meaningful: return text
DecideDirect ==
    /\ cpc = "decide"
    /\ IsMeaningful(direct_text)
    /\ bengali_text' = direct_text
    /\ extracted_by' = "direct"
    /\ cpc' = "transliterate"
    /\ UNCHANGED <<env, trace, direct_text, transliterated_text, output_file,
                   exit_code,
                   test_output, wvars, tvars>>

\* OCR called at `from` ("decide": line 323, inside the try; "except": line
\* 328).  A missing file raises; otherwise the OCR run fails or gives the
\* text of the page images.  An exception raised inside the try is caught by
\* the except clause of the same function; one raised at line 328 leaves it.
CallOcr(from) ==
    \E fails \in BOOLEAN :
        /\ (pdf.file = "missing") => fails
        /\ IF fails
           THEN /\ trace' = trace \o <<"ocr", "ocr_raised">>
                /\ cpc' = IF from = "decide" THEN "except" ELSE "translate_except"
                /\ UNCHANGED <<bengali_text, extracted_by>>
           ELSE /\ trace' = Append(trace, "ocr")
                /\ bengali_text' = extract_text_from_pdf_with_ocr(
                                       [n \in 1..Len(pdf.pages) |-> pdf.scan])
                /\ extracted_by' = "ocr"
                /\ cpc' = "transliterate"

\* else: return self.extract_text_from_pdf_with_ocr(pdf_path)
DecideOcr ==
    /\ cpc = "decide"
    /\ ~IsMeaningful(direct_text)
    /\ CallOcr("decide")
    /\ UNCHANGED <<env, direct_text, transliterated_text, output_file,
                   exit_code,
                   test_output, wvars, tvars>>

\* except Exception: return self.extract_text_from_pdf_with_ocr(pdf_path)
ExceptOcr ==
    /\ cpc = "except"
    /\ CallOcr("except")
    /\ UNCHANGED <<env, direct_text, transliterated_text, output_file,
                   exit_code,
                   test_output, wvars, tvars>>

\* transliterated_text = self.transliterate_text(bengali_text)
Transliterate ==
    /\ cpc = "transliterate"
    /\ transliterated_text' = transliterate_text(bengali_text)
    /\ trace' = Append(trace, "transliterate_text")
    /\ cpc' = "render"
    /\ UNCHANGED <<env, direct_text, bengali_text, extracted_by, output_file,
                   exit_code,
                   test_output, wvars, tvars>>

\* self.create_transliterated_pdf(...): the document is written, or the
\* build raises and may leave a truncated file
Render ==
    /\ cpc = "render"
    /\ \E written \in {"complete", "partial", "none"} :
           /\ output_file' = written
           /\ IF written = "complete"
              THEN /\ trace' = Append(trace, "create_transliterated_pdf")
                   /\ cpc' = "translated"
              ELSE /\ trace' = trace \o <<"create_transliterated_pdf",
                                         "render_raised">>
                   /\ cpc' = "translate_except"
    /\ UNCHANGED <<env, direct_text, bengali_text, extracted_by,
                   transliterated_text, exit_code,
                   test_output, wvars, tvars>>

\* (mutant) translate_pdf: except Exception as e: print(...), no raise
TranslateSwallow ==
    /\ cpc = "translate_except"
    /\ cpc' = "translated"
    /\ UNCHANGED <<env, trace, direct_text, bengali_text, extracted_by,
                   transliterated_text, output_file, exit_code,
                   test_output, wvars, tvars>>

\* translate_pdf: except Exception as e: print(...); raise
TranslateReraise ==
    /\ cpc = "translate_except"
    /\ trace' = Append(trace, "translate_pdf_raised")
    /\ cpc' = "main_except"
    /\ UNCHANGED <<env, direct_text, bengali_text, extracted_by,
                   transliterated_text, output_file, exit_code,
                   test_output, wvars, tvars>>

\* main: except Exception as e: print(...); return 1
MainExcept ==
    /\ entry = "cli"
    /\ cpc = "main_except"
    /\ Exit(1)
    /\ UNCHANGED <<env, trace, direct_text, bengali_text, extracted_by,
                   transliterated_text, output_file, test_output,
                   wvars, tvars>>

\* translate_pdf returned: the success messages; return 0
MainSuccess ==
    /\ entry = "cli"
    /\ cpc = "translated"
    /\ trace' = Append(trace, "translate_pdf_returned")
    /\ Exit(0)
    /\ UNCHANGED <<env, direct_text, bengali_text, extracted_by,
                   transliterated_text, output_file, test_output,
                   wvars, tvars>>

\* bengali_english_translator.py, main:
\* os.makedirs(os.path.dirname(output_pdf), exist_ok=True) raises, outside
\* the try: the exception escapes main
ModuleMainMkdirFails ==
    /\ entry = "module"
    /\ cpc = "main"
    /\ ~mkdir_ok
    /\ trace' = Append(trace, "mkdir_raised")
    /\ ModuleExit(1)
    /\ UNCHANGED <<env, direct_text, bengali_text, extracted_by,
                   transliterated_text, output_file, test_output,
                   wvars, tvars>>

\* bengali_english_translator.py, main:
\* translator.translate_pdf(input_pdf, output_pdf), with no test of the input
\* file before it
ModuleMainCallTranslate ==
    /\ entry = "module"
    /\ cpc = "main"
    /\ mkdir_ok
    /\ trace' = trace \o <<"translate_pdf", "smart_extract_text_from_pdf">>
    /\ cpc' = "extract"
    /\ UNCHANGED <<env, direct_text, bengali_text, extracted_by,
                   transliterated_text, output_file, exit_code,
                   test_output, wvars, tvars>>

\* bengali_english_translator.py, main: except FileNotFoundError / except
\* Exception: print(...) and nothing else; main returns None and the script
\* ends with status 0
ModuleMainExcept ==
    /\ entry = "module"
    /\ cpc = "main_except"
    /\ ModuleExit(0)
    /\ UNCHANGED <<env, trace, direct_text, bengali_text, extracted_by,
                   transliterated_text, output_file, test_output,
                   wvars, tvars>>

\* bengali_english_translator.py, main: translate_pdf returned; the success
\* messages, and the script ends with status 0
ModuleMainSuccess ==
    /\ entry = "module"
    /\ cpc = "translated"
    /\ trace' = Append(trace, "translate_pdf_returned")
    /\ ModuleExit(0)
    /\ UNCHANGED <<env, direct_text, bengali_text, extracted_by,
                   transliterated_text, output_file, test_output,
                   wvars, tvars>>

\* a run of one of the two scripts.  bengali_english_translator.py takes no
\* arguments and its paths are fixed.  Variables that the run never reads
\* are fixed: mkdir_ok when an output path is given, the document when the
\* command line is not accepted.
InitCli ==
    /\ entry \in {"cli", "module"}
    /\ args_parse \in {"ok", "error", "help"}
    /\ args_test \in BOOLEAN
    /\ args_output_given \in BOOLEAN
    /\ mkdir_ok \in BOOLEAN
    /\ input_exists \in BOOLEAN
    /\ pdf \in Documents
    /\ ~input_exists => pdf.file = "missing"
    /\ entry = "cli" => (args_output_given => mkdir_ok)
    /\ args_parse # "ok" => (pdf.pages = <<>> /\ pdf.scan = <<>>)
    /\ entry = "module" =>
           /\ args_parse = "ok" /\ ~args_test /\ ~args_output_given
           /\ input_exists = (pdf.file # "missing")
    /\ cpc = "main" /\ trace = <<>> /\ test_output = <<>>
    /\ direct_text = <<>>
    /\ bengali_text = <<>> /\ extracted_by = "none"
    /\ transliterated_text = <<>> /\ output_file = "none" /\ exit_code = -1
    /\ WordIdle
    /\ TextIdle

NextCli ==
    \/ MainParseError \/ MainHelp
    \/ MainRunTest \/ MainMkdirFails \/ MainInputMissing \/ MainCallTranslate
    \/ ExtractDirect \/ DecideDirect \/ DecideOcr \/ ExceptOcr
    \/ Transliterate \/ Render \/ TranslateReraise \/ MainExcept
    \/ MainSuccess
    \/ ModuleMainMkdirFails \/ ModuleMainCallTranslate \/ ModuleMainExcept
    \/ ModuleMainSuccess

SpecCli == InitCli /\ [][NextCli]_vars

(***************************************************************************)
(* Properties of transliterate_word (SpecWord, SpecWordFair).              *)
(***************************************************************************)
\* C2: for every word w of the exception table, alone or with whitespace
\* around it, transliterate_word returns the table's value and the scan is
\* not run at all (it reads no position and never is at a scan step),
\* whatever the scan would have produced.
ExceptionPrecedence ==
    \A w \in DOMAIN word_exceptions :
        ( /\ pc # "call"
          /\ Len(word) >= Len(w)
          /\ \E a \in 0..(Len(word) - Len(w)) :
                /\ SubSeq(word, a + 1, a + Len(w)) = w
                /\ \A j \in (1..a) \cup ((a + Len(w) + 1)..Len(word)) :
                       IsSpace(word[j]) )
        => /\ pc = "ret"
           /\ result = word_exceptions[w]
           /\ reads = {}
           /\ i = 0

\* C2 witness: the padded word "\t golpo-key " (ga, la, virama, pa) has
\* returned "golpo", which the scan ("glp") would not have produced.
ExceptionPrecedenceWitness ==
    /\ pc = "ret"
    /\ word = <<9, 32, 2455, 2482, 2509, 2474, 32>>
    /\ result = <<103, 111, 108, 112, 111>>
    /\ ScanFrom(clean_word, 0, <<>>) # result

\* C3: at a scan step with index i, a virama at i + 1 and i + 2 < length,
\* the step appends map(word[i]) and map(word[i + 2]) with nothing between
\* and advances i by 3; and a 3-character word [X, virama, Y] with X and Y
\* mapped, not in the exception table, returns exactly map(X) + map(Y).
ConjunctRule ==
    /\ [][ ( /\ pc = "scan"
             /\ i + 2 < Len(clean_word)
             /\ clean_word[i + 2] = Virama )
           => ( /\ pc' = "scan"
                /\ i' = i + 3
                /\ result' = result \o transliterate_character(clean_word[i + 1])
                                    \o transliterate_character(clean_word[i + 3]) )
         ]_vars
    /\ [] ( ( /\ pc = "ret"
              /\ Len(clean_word) = 3
              /\ clean_word \notin DOMAIN word_exceptions
              /\ clean_word[2] = Virama
              /\ <<clean_word[1]>> \in DOMAIN bengali_to_english_map
              /\ <<clean_word[3]>> \in DOMAIN bengali_to_english_map )
            => result = bengali_to_english_map[<<clean_word[1]>>]
                            \o bengali_to_english_map[<<clean_word[3]>>] )

\* C3 witness: the word [ka, virama, kha] has returned "kkh".
ConjunctRuleWitness ==
    /\ pc = "ret"
    /\ clean_word = <<2453, 2509, 2454>>
    /\ result = <<107, 107, 104>>
    /\ reads = {0, 1, 2}

\* C4 as stated: for every character c that is not a key of CharacterMap,
\* whitespace included, the single-character word c is returned unchanged.
IdentityFallbackEveryCharacter ==
    ( /\ pc = "ret"
      /\ Len(word) = 1
      /\ word \notin DOMAIN bengali_to_english_map )
    => result = word

\* C4 amended: for every character c that is not a key of CharacterMap, the
\* single-character word c is returned unchanged when c is not whitespace,
\* and the empty string is returned when c is whitespace (strip removes it).
IdentityFallback ==
    ( /\ pc = "ret"
      /\ Len(word) = 1
      /\ word \notin DOMAIN bengali_to_english_map )
    => result = IF word[1] \in WhitespaceCodePoints THEN <<>> ELSE word

\* C4 witness: the unmapped nukta U+09BC alone has been returned unchanged.
IdentityFallbackWitness ==
    /\ pc = "ret"
    /\ word = <<2492>>
    /\ result = <<2492>>

\* C6: transliterate_word raises nothing and returns for every input: in
\* every step 0 <= i <= length, only positions < length are read, a scan
\* step raises i by 1 or by 3, the loop exits with i = length, the empty
\* word returns the empty string, and every call returns.
ScanSafeAndTerminates ==
    /\ [] ( /\ pc # "raised"
            /\ 0 <= i /\ i <= Len(clean_word)
            /\ \A p \in reads : 0 <= p /\ p < Len(clean_word)
            /\ (pc = "ret" /\ clean_word \notin DOMAIN word_exceptions)
                   => i = Len(clean_word)
            /\ (pc = "ret" /\ word = <<>>) => result = <<>> )
    /\ [][ (pc = "scan" /\ pc' # "ret") => (i' = i + 1 \/ i' = i + 3) ]_vars
    /\ <>(pc = "ret")

\* C6 witness: the word [ka, virama, ka, virama] has been scanned to its
\* end: a conjunct step from 0 to 3, then a single step over the last virama.
ScanSafeWitness ==
    /\ pc = "ret"
    /\ clean_word = <<2453, 2509, 2453, 2509>>
    /\ i = 4
    /\ reads = {0, 1, 2, 3}

(***************************************************************************)
(* Properties of transliterate_text (SpecText).                            *)
(***************************************************************************)
\* the maximal whitespace runs of s, in order
WhitespaceRuns(s) == SelectSeq(findall(s), isspace)

\* C1 as stated: for every text the maximal whitespace runs of the output
\* are those of the input (count, order, characters).
WhitespaceStructureEveryText ==
    tpc = "ret" => WhitespaceRuns(joined) = WhitespaceRuns(text)

\* C1 amended: every whitespace token passes through unchanged, and for
\* every text in which no non-whitespace run transliterates to the empty
\* string, the maximal whitespace runs of the output are those of the input.
WhitespaceStructure ==
    tpc = "ret" =>
        /\ Len(transliterated_words) = Len(words)
        /\ \A n \in 1..Len(words) :
               IsSpace(words[n][1]) => transliterated_words[n] = words[n]
        /\ (\A n \in 1..Len(words) : transliterated_words[n] # <<>>)
               => WhitespaceRuns(joined) = WhitespaceRuns(text)

\* C1 witness: "k<virama> \ta" has become "k \ta": the word changed and the
\* run of a space and a tab is kept.
WhitespaceStructureWitness ==
    /\ tpc = "ret"
    /\ text = <<2453, 2509, 32, 9>>
    /\ joined = <<107, 32, 9>>
    /\ WhitespaceRuns(joined) = <<<<32, 9>>>>

\* the Bengali block U+0980..U+09FF
IsBengali(c) == c \in 2432..2559

\* C5 as stated: a text with no Bengali character is returned unchanged.
NoBengaliUnchanged ==
    (tpc = "ret" /\ \A n \in 1..Len(text) : ~IsBengali(text[n]))
        => joined = text

\* C5 amended: a text with no Bengali character and no danda (U+0964) or
\* double danda (U+0965) is returned unchanged.
NoMappedCharacterUnchanged ==
    ( /\ tpc = "ret"
      /\ \A n \in 1..Len(text) :
             ~IsBengali(text[n]) /\ text[n] \notin {2404, 2405} )
        => joined = text

\* C5 witness: "Hello, World 42" has been returned unchanged.
NoMappedCharacterWitness ==
    /\ tpc = "ret"
    /\ text = <<72, 101, 108, 108, 111, 44, 32, 87, 111, 114, 108, 100, 32, 52, 50>>
    /\ joined = text
    /\ Len(words) = 5

\* C7: the tokens concatenate back to the text, each is non-empty and is all
\* whitespace or all non-whitespace, adjacent tokens alternate between the
\* two kinds, and the empty text has no token.
TokenRoundTrip ==
    tpc \in {"loop", "ret"} =>
        /\ join(words) = text
        /\ \A n \in 1..Len(words) :
               /\ words[n] # <<>>
               /\ \A a, b \in 1..Len(words[n]) :
                      IsSpace(words[n][a]) = IsSpace(words[n][b])
        /\ \A n \in 1..(Len(words) - 1) :
               IsSpace(words[n][1]) # IsSpace(words[n + 1][1])
        /\ (text = <<>> => words = <<>>)

\* C7 witness: " \ta " has the three tokens " \t", "a", " ".
TokenRoundTripWitness ==
    /\ tpc = "loop"
    /\ text = <<32, 9, 97, 32>>
    /\ words = << <<32, 9>>, <<97>>, <<32>> >>

(***************************************************************************)
(* Properties of the PDF pipeline and the command line (SpecCli).          *)
(***************************************************************************)
Range(s) == {s[n] : n \in 1..Len(s)}

\* smart_extract_text_from_pdf has returned or has raised
ExtractionOver ==
    cpc \in {"transliterate", "render", "translated", "translate_except",
             "main_except"}
        \/ (cpc = "exit" /\ "smart_extract_text_from_pdf" \in Range(trace))

\* C8: direct extraction is attempted first; the direct text is returned,
\* unmodified, exactly when direct extraction did not raise, the stripped
\* text is longer than 50 characters and has an alphanumeric character; in
\* every other case OCR is invoked and the direct text is not returned.
SmartExtractionDecision ==
    ExtractionOver =>
        LET stripped == strip(direct_text)
            sufficient ==
                /\ "direct_raised" \notin Range(trace)
                /\ Len(stripped) >= 51
                /\ Range(stripped) \cap AlnumCodePoints # {}
        IN  /\ trace[3] = "direct"
            /\ (extracted_by = "direct") <=> sufficient
            /\ sufficient => /\ bengali_text = direct_text
                             /\ "ocr" \notin Range(trace)
            /\ ~sufficient => "ocr" \in Range(trace)

\* C8 witness: two pages of 25 and 24 letters give exactly 50 stripped
\* characters, and the text returned is the OCR text.
SmartExtractionWitness ==
    /\ cpc = "transliterate"
    /\ pdf.pages = <<Repeat(97, 25), Repeat(97, 24)>>
    /\ Len(strip(direct_text)) = 50
    /\ extracted_by = "ocr"
    /\ bengali_text # direct_text

\* C9: OCR extraction is invoked at most once in a run, and once it has
\* raised no extraction strategy is invoked again.
OcrFailureIsFatal ==
    /\ Cardinality({n \in 1..Len(trace) : trace[n] = "ocr"}) <= 1
    /\ \A n \in 1..Len(trace) :
           trace[n] = "ocr_raised" =>
               \A m \in (n + 1)..Len(trace) : trace[m] \notin {"direct", "ocr"}

\* C10: in a run of cli_translator.py whose command line the parser accepts,
\* the exit status is 0 exactly when --test was given or translate_pdf
\* returned normally, and 1 otherwise: a run without --test whose input file
\* does not exist exits with 1, and a run in which translate_pdf raised
\* exits with 1.  In every run of cli_translator.py whose input file does
\* not exist, neither translate_pdf nor any stage of it is called and no
\* output document is written.  (A command line the parser rejects ends the
\* run with 2, and --help with 0, before anything is called.)
CliExitStatus ==
    (cpc = "exit" /\ entry = "cli") =>
        /\ args_parse = "ok" =>
               /\ exit_code \in {0, 1}
               /\ (exit_code = 0) <=>
                      \/ args_test
                      \/ /\ "translate_pdf" \in Range(trace)
                         /\ "translate_pdf_raised" \notin Range(trace)
               /\ (~args_test /\ ~input_exists) => exit_code = 1
               /\ "translate_pdf_raised" \in Range(trace) => exit_code = 1
               /\ args_test => Range(trace) = {"run_quick_test"}
        /\ ~input_exists =>
               /\ Range(trace) \cap {"translate_pdf", "direct", "ocr",
                      "transliterate_text", "create_transliterated_pdf"} = {}
               /\ output_file = "none"
        /\ args_parse = "error" => (exit_code = 2 /\ trace = <<>>)
        /\ args_parse = "help" => (exit_code = 0 /\ trace = <<>>)

\* C10 witness: a run of cli_translator.py without --test on a missing input
\* file, with an output path given, has exited with 1 and has called nothing.
CliExitStatusWitness ==
    /\ cpc = "exit"
    /\ entry = "cli" /\ args_parse = "ok"
    /\ ~args_test /\ args_output_given /\ ~input_exists
    /\ exit_code = 1
    /\ trace = <<>>

(***************************************************************************)
(* Further properties of transliterate_word (SpecWord).                    *)
(***************************************************************************)
\* C11: every key of CharacterMap is a single code point, and the word that
\* is exactly a key k returns CharacterMap[k].
EveryKeyReachable ==
    (pc = "ret" /\ word \in DOMAIN bengali_to_english_map)
        => /\ Len(word) = 1
           /\ result = bengali_to_english_map[word]

(***************************************************************************)
(* The order of the stages of translate_pdf (SpecCli).                     *)
(***************************************************************************)
\* the positions of event e in the trace
Positions(e) == {n \in 1..Len(trace) : trace[n] = e}

\* C12: translate_pdf calls smart_extract_text_from_pdf, transliterate_text
\* and create_transliterated_pdf at most once each and in this order, each
\* after the one before it has returned; when extraction has failed (after
\* its fallback) neither transliterate_text nor create_transliterated_pdf
\* is called; after a failed rendering nothing is called again; and every
\* failure is re-raised by translate_pdf, which then has not returned (and
\* cli_translator.py, its caller, then exits with 1).
PipelineOrdering ==
    LET stages == <<"smart_extract_text_from_pdf", "transliterate_text",
                    "create_transliterated_pdf">>
        extraction == {"direct", "direct_raised", "ocr", "ocr_raised"}
        over == cpc \in {"main_except", "exit"}
        failed == \/ "render_raised" \in Range(trace)
                  \/ /\ Positions("ocr_raised") # {}
                     /\ extracted_by = "none"
                     /\ cpc # "except"
    IN  /\ \A n \in 1..3 : Cardinality(Positions(stages[n])) <= 1
        /\ \A n \in Positions("transliterate_text") :
               /\ extracted_by # "none"
               /\ \A m \in 1..Len(trace) :
                      trace[m] \in extraction \cup {stages[1]} => m < n
               /\ trace[n - 1] \in {"direct", "ocr"}
        /\ \A n \in Positions("create_transliterated_pdf") :
               /\ trace[n - 1] = "transliterate_text"
               /\ transliterated_text = transliterate_text(bengali_text)
        /\ extracted_by = "none" =>
               Range(trace) \cap {stages[2], stages[3]} = {}
        /\ \A n \in Positions("render_raised") :
               \A m \in (n + 1)..Len(trace) : trace[m] = "translate_pdf_raised"
        /\ (over /\ failed) =>
               /\ trace[Len(trace)] = "translate_pdf_raised"
               /\ "translate_pdf_returned" \notin Range(trace)
               /\ (cpc = "exit" /\ entry = "cli") => exit_code = 1
        /\ (over /\ "translate_pdf_raised" \in Range(trace)) => failed

\* C12 witness: all three stages ran in order on OCR text, the rendering
\* failed, and translate_pdf re-raised to main of cli_translator.py, which
\* exited with 1.
PipelineOrderingWitness ==
    /\ cpc = "exit"
    /\ entry = "cli"
    /\ exit_code = 1
    /\ extracted_by = "ocr"
    /\ trace = <<"translate_pdf", "smart_extract_text_from_pdf", "direct",
                 "ocr", "transliterate_text", "create_transliterated_pdf",
                 "render_raised", "translate_pdf_raised">>

(***************************************************************************)
(* The virama at the end of a word and the conjunct branch (SpecWord).     *)
(***************************************************************************)
\* CharacterMap lookup with the character itself as the default
Lookup(c) ==
    IF <<c>> \in DOMAIN bengali_to_english_map
    THEN bengali_to_english_map[<<c>>]
    ELSE <<c>>

\* C13: at a scan index i >= length - 2 the conjunct branch is not taken:
\* the step appends the lookup of the character at i alone, reads no
\* position after i and advances by 1, whatever the next character is; so
\* a final virama adds nothing, [X, virama] returns map(X) and
\* [virama, Y] returns map(Y).
TrailingVirama ==
    /\ [][ ( /\ pc = "scan"
             /\ i < Len(clean_word)
             /\ i >= Len(clean_word) - 2 )
           => ( /\ pc' = "scan"
                /\ i' = i + 1
                /\ result' = result \o Lookup(clean_word[i + 1])
                /\ reads' = reads \cup {i} )
         ]_vars
    /\ [] ( ( /\ pc = "ret"
              /\ Len(clean_word) = 2
              /\ clean_word \notin DOMAIN word_exceptions )
            => /\ clean_word[2] = Virama => result = Lookup(clean_word[1])
               /\ clean_word[1] = Virama => result = Lookup(clean_word[2]) )

\* C13 witness: [kha, virama] has returned "kh" in two single steps.
TrailingViramaWitness ==
    /\ pc = "ret"
    /\ clean_word = <<2454, 2509>>
    /\ result = <<107, 104>>
    /\ i = 2
    /\ reads = {0, 1}

\* the lookups of the characters of s, concatenated in order
RECURSIVE PlainConcat(_)
PlainConcat(s) ==
    IF s = <<>> THEN <<>> ELSE Lookup(Head(s)) \o PlainConcat(Tail(s))

\* C14: for every word that is not in the exception table, whatever its
\* viramas, the result is the concatenation of the lookups of the
\* characters of the stripped word: the conjunct branch changes no output.
ConjunctBranchChangesNothing ==
    (pc = "ret" /\ clean_word \notin DOMAIN word_exceptions)
        => /\ result = PlainConcat(clean_word)
           /\ \E a, b \in 0..Len(word) :
                  /\ a + Len(clean_word) + b = Len(word)
                  /\ clean_word = SubSeq(word, a + 1, a + Len(clean_word))
                  /\ \A n \in (1..a) \cup ((Len(word) - b + 1)..Len(word)) :
                         word[n] \in WhitespaceCodePoints
                  /\ clean_word # <<>> =>
                         /\ clean_word[1] \notin WhitespaceCodePoints
                         /\ clean_word[Len(clean_word)] \notin WhitespaceCodePoints

\* C14 witness: the chain [ka, virama, kha, virama, ka, virama, kha] has
\* returned "kkhkkh" through two conjunct steps and one single step.
ConjunctBranchWitness ==
    /\ pc = "ret"
    /\ word = <<2453, 2509, 2454, 2509, 2453, 2509, 2454>>
    /\ result = <<107, 107, 104, 107, 107, 104>>
    /\ reads = 0..6

=============================================================================
